---- MODULE Spec2Model ----
(***************************************************************************)
(* AssemblyLinePipeline (agentic_ai/workflows/assembly_line.py), the       *)
(* task-scoped execution context (agentic_ai/utils/context.py) and the     *)
(* cost tracker with its pricing registry (agentic_ai/utils/costs.py),     *)
(* together with the rate limiter (agentic_ai/utils/security.py), the      *)
(* cache client (agentic_ai/utils/cache.py) and the active-requests gauge  *)
(* of the engine (agentic_ai/service/engine.py).                           *)
(*                                                                         *)
(* A pipeline is constructed, agents are added, the graph is built, and    *)
(* execute / execute_batch run the compiled chain of agent nodes.  Every   *)
(* await of the code is a step boundary: concurrent runs interleave at     *)
(* the await of agent.process and between two nodes of the graph.          *)
(* Durations and wall-clock timestamps of the results are left out; the    *)
(* clock is kept only where the code derives an identifier from it.        *)
(***************************************************************************)
EXTENDS Integers, Sequences, FiniteSets, TLC

\* ---------------------------------------------------------------- bounds
MaxStages == 3
MaxCalls == 1
MaxBatch == 2
MaxRecords == 4

\* ------------------------------------------------------------ input sets
NameOrder == <<"a", "b", "c", "d">>
Names == {NameOrder[i] : i \in 1..Len(NameOrder)}
Inputs == {"x", "y"}
PipelineName == "P"
\* self.config["workflows"]: <<key, timeout>> entries.  The pipeline reads the
\* entry under its own key; "other" is the key of some other workflow.
WorkflowKey == "p"
TimeoutConfigs == {{}, {<<WorkflowKey, 0>>}, {<<WorkflowKey, 1>>}, {<<"other", 1>>}}

Runs == 1..MaxBatch
CallerTask == 0
Tasks == {CallerTask} \cup Runs

VARIABLES
    agents,             \* self.agents: the registered agent names
    agent_order,        \* self.agent_order
    compiled_graph,     \* self.compiled_graph: [set, nodes]
    execution_history,  \* self.execution_history
    config,             \* self.config["workflows"]: the configured timeouts
    ctx,                \* the context variables, one binding per asyncio task
    runs,               \* one record per execute call
    now,                \* the clock read by datetime.now()
    caller,             \* the coroutine that calls execute / execute_batch
    calls,              \* the number of execute calls made so far
    completion_order,   \* the order in which the execute coroutines finished
    setup,              \* how the last add_agent / build call ended
    entries,            \* CostTracker.entries: the bounded deque of cost entries
    costs_cfg,          \* config["costs"] of the CostTracker
    record_calls,       \* the number of record calls made so far
    recorded,           \* every entry record has appended, in recording order
    last_record,        \* what the last record call returned
    last_summary,       \* what the last summary call returned
    last_recent,        \* what the last recent call returned, and its limit
    capacity,           \* RateLimiter.capacity
    buckets,            \* RateLimiter.buckets: one token bucket per key
    monotonic,          \* the clock read by time.monotonic(), in steps of 30 s
    allow_log,          \* every allow call so far: its key, its time, its answer
    cache_cfg,          \* the config of the CacheClient
    memory,             \* CacheClient._memory
    wall,               \* the clock read by time.time(), in seconds
    last_get,           \* the last get_json call: its key, its time, its result
    last_set,           \* for each key the last set_json call that stored it
    metrics,            \* AgenticEngine.metrics: whether a collector exists
    active_requests,    \* MetricsCollector.active_requests, the gauge
    executions          \* the _execute calls of the engine

\* The state of the cost tracker, which the pipeline does not touch.
ledger_vars == <<entries, costs_cfg, record_calls, recorded, last_record>>
\* What the read calls of the cost tracker returned.
reader_vars == <<last_summary, last_recent>>
\* The rate limiter, the cache client and the engine with its gauge.
limiter_vars == <<capacity, buckets, monotonic, allow_log>>
cache_vars == <<cache_cfg, memory, wall, last_get, last_set>>
engine_vars == <<metrics, active_requests, executions>>
service_vars == <<limiter_vars, cache_vars, engine_vars>>
not_pipeline_vars == <<ledger_vars, reader_vars, service_vars>>
pipeline_vars == <<agents, agent_order, compiled_graph, execution_history, config, ctx,
                   runs, now, caller, calls, completion_order, setup>>

vars == <<pipeline_vars, not_pipeline_vars>>

\* ------------------------------------------------------- context.py
Unknown == <<"unknown">>
Outer == <<"outer">>

\* The context variables default to "unknown"; the caller of the pipeline
\* may itself run inside a scope that has set some of them.
DefaultContext == [workflow |-> Unknown, agent |-> Unknown, request_id |-> Unknown]
CallerContext == [workflow |-> Outer, agent |-> Unknown, request_id |-> Outer]

\* ContextVar.set returns a token that remembers the value it replaced.
set_workflow(c, name) == [ctx |-> [c EXCEPT !.workflow = name], token |-> c.workflow]
set_agent(c, name) == [ctx |-> [c EXCEPT !.agent = name], token |-> c.agent]
set_request_id(c, id) == [ctx |-> [c EXCEPT !.request_id = id], token |-> c.request_id]

reset_workflow(c, token) == [c EXCEPT !.workflow = token]
reset_agent(c, token) == [c EXCEPT !.agent = token]
reset_request_id(c, token) == [c EXCEPT !.request_id = token]

get_context(c) == [workflow |-> c.workflow, agent |-> c.agent, request_id |-> c.request_id]

\* asyncio.gather wraps each coroutine in a task of its own, and a task runs
\* in a copy of the context of the code that created it.
SharedTaskContext(r) == CallerTask
NewTaskContext(r) == r

\* ------------------------------------------------------- costs.py
\* Amounts are whole numbers: a rate is in millionths of a dollar per 1,000
\* tokens, a unit cost and a computed cost are in billionths of a dollar (so
\* "tokens / 1000.0 * rate" is tokens * rate), and the stored cost_usd is in
\* units of 10^-8 dollar, the precision of round(cost, 8).
None == <<>>

\* dict.get(key) and dict.get(key, default); "if d" is false for an empty dict.
get(d, key) == IF key \in DOMAIN d THEN <<d[key]>> ELSE None
get_or(d, key, default) == IF key \in DOMAIN d THEN d[key] ELSE default
Truthy(d) == DOMAIN d # {}

Max(a, b) == IF a >= b THEN a ELSE b
Min(a, b) == IF a <= b THEN a ELSE b

\* _optional_float(tier_config.get(key)): None for a missing key.  The
\* configured values are numbers, which float() accepts.
optional_float(d, key) == get(d, key)

\* _optional_costs: the named unit costs, None (the empty mapping) when the
\* value is not a dict or holds no cost.
optional_costs(d) == IF "unit_costs" \in DOMAIN d THEN d.unit_costs ELSE <<>>

\* PricingRegistry._select_modality; modalities is the dict in declared order,
\* a sequence of [name, config].
select_modality(model_config, modality) ==
    LET modalities == get_or(model_config, "modalities", <<>>)
        named(n) == {i \in 1..Len(modalities) : modalities[i].name = n}
    IN  IF modalities = <<>> THEN model_config
        ELSE IF named(modality) # {} THEN modalities[CHOOSE i \in named(modality) : TRUE].config
        ELSE IF named("text") # {} THEN modalities[CHOOSE i \in named("text") : TRUE].config
        ELSE modalities[1].config

\* "prompt_tokens >= min_tokens and (max_tokens is None or prompt_tokens <= max_tokens)"
TierContains(tier, prompt_tokens) ==
    /\ prompt_tokens >= get_or(tier, "min_prompt_tokens", 0)
    /\ \/ "max_prompt_tokens" \notin DOMAIN tier
       \/ prompt_tokens <= tier.max_prompt_tokens

\* PricingRegistry._select_tier
select_tier_last_match(model_config, prompt_tokens) ==
    LET tiers == get_or(model_config, "tiers", <<>>)
        matching == {i \in 1..Len(tiers) : TierContains(tiers[i], prompt_tokens)}
    IN  IF tiers = <<>> THEN model_config
        ELSE IF matching # {}
             THEN tiers[CHOOSE i \in matching : \A j \in matching : i >= j]
             ELSE tiers[Len(tiers)]
select_tier(model_config, prompt_tokens) ==
    LET tiers == get_or(model_config, "tiers", <<>>)
        matching == {i \in 1..Len(tiers) : TierContains(tiers[i], prompt_tokens)}
    IN  IF tiers = <<>> THEN model_config
        ELSE IF matching # {}
             THEN tiers[CHOOSE i \in matching : \A j \in matching : i <= j]
             ELSE tiers[Len(tiers)]

\* The ModelPricing built from the selected tier (or flat) config.
ModelPricing(tier_config) ==
    [input_per_1k |-> get_or(tier_config, "input_per_1k", 0),
     output_per_1k |-> get_or(tier_config, "output_per_1k", 0),
     cached_input_per_1k |-> optional_float(tier_config, "cached_input_per_1k"),
     cache_write_per_1k |-> optional_float(tier_config, "cache_write_per_1k"),
     cache_write_5m_per_1k |-> optional_float(tier_config, "cache_write_5m_per_1k"),
     cache_write_1h_per_1k |-> optional_float(tier_config, "cache_write_1h_per_1k"),
     unit_label |-> get(tier_config, "unit_label"),
     unit_cost |-> optional_float(tier_config, "unit_cost"),
     unit_costs |-> optional_costs(tier_config)]

\* PricingRegistry.resolve: the model's own config, else the default
\* model's, else zero rates.
resolve_unpriced_at_base_rates(costs, model, prompt_tokens, modality) ==
    LET own == get(costs.models, model)
        default_model == costs.default_model
        model_config ==
            IF own # None /\ Truthy(own[1]) THEN own
            ELSE IF default_model # None THEN get(costs.models, default_model[1])
            ELSE own
    IN  IF model_config = None \/ ~Truthy(model_config[1])
        THEN ModelPricing([input_per_1k |-> 107, output_per_1k |-> 303])
        ELSE ModelPricing(select_tier(select_modality(model_config[1], modality),
                                      prompt_tokens))
resolve(costs, model, prompt_tokens, modality) ==
    LET own == get(costs.models, model)
        default_model == costs.default_model
        model_config ==
            IF own # None /\ Truthy(own[1]) THEN own
            ELSE IF default_model # None THEN get(costs.models, default_model[1])
            ELSE own
    IN  IF model_config = None \/ ~Truthy(model_config[1])
        THEN ModelPricing(<<>>)
        ELSE ModelPricing(select_tier(select_modality(model_config[1], modality),
                                      prompt_tokens))

\* "a or b" on an optional rate: b when a is None or 0.
RateOr(rate, fallback) == IF rate # None /\ rate[1] # 0 THEN rate[1] ELSE fallback

\* round(cost, 8) of a cost in billionths of a dollar, in units of 10^-8
\* dollar: the nearest one; the float that stands for an exact half lies just
\* above or just below it, so either neighbour can be the result.
round8(cost) ==
    LET q == cost \div 10
        rem == cost % 10
    IN  IF rem < 5 THEN {q} ELSE IF rem > 5 THEN {q + 1} ELSE {q, q + 1}

\* The rate of cached prompt tokens: the configured one, also when it is 0.
cached_rate_always_base(pricing) == pricing.input_per_1k
cached_rate(pricing) ==
    IF pricing.cached_input_per_1k # None THEN pricing.cached_input_per_1k[1]
    ELSE pricing.input_per_1k

\* The rates of the three cache-write classes (lines 156-158).
cache_write_rates_own_or_base(pricing) ==
    [generic |-> IF pricing.cache_write_per_1k # None THEN pricing.cache_write_per_1k[1]
                 ELSE pricing.input_per_1k,
     m5 |-> IF pricing.cache_write_5m_per_1k # None THEN pricing.cache_write_5m_per_1k[1]
            ELSE pricing.input_per_1k,
     h1 |-> IF pricing.cache_write_1h_per_1k # None THEN pricing.cache_write_1h_per_1k[1]
            ELSE pricing.input_per_1k]
cache_write_rates(pricing) ==
    LET cache_write_rate == RateOr(pricing.cache_write_per_1k, pricing.input_per_1k)
    IN  [generic |-> cache_write_rate,
         m5 |-> RateOr(pricing.cache_write_5m_per_1k, cache_write_rate),
         h1 |-> RateOr(pricing.cache_write_1h_per_1k, cache_write_rate)]

\* The unit cost (lines 160-163): the named one of the call's unit tier when
\* the pricing has it, else the flat one, which may be None.
resolved_unit_cost_flat_only(pricing, unit_tier) == pricing.unit_cost
resolved_unit_cost(pricing, unit_tier) ==
    IF unit_tier # None /\ unit_tier[1] \in DOMAIN pricing.unit_costs
    THEN <<pricing.unit_costs[unit_tier[1]]>>
    ELSE pricing.unit_cost

\* The billable prompt count of lines 152-155: what is left of the prompt
\* after the cached and the cache-write tokens, and never less than 0.
billable_tokens_not_floored(prompt_tokens, cached_tokens, cache_write_tokens, cache_write_5m_tokens, cache_write_1h_tokens) ==
    prompt_tokens - cached_tokens - cache_write_tokens
        - cache_write_5m_tokens - cache_write_1h_tokens
billable_tokens(prompt_tokens, cached_tokens, cache_write_tokens, cache_write_5m_tokens, cache_write_1h_tokens) ==
    Max(prompt_tokens - cached_tokens - cache_write_tokens
            - cache_write_5m_tokens - cache_write_1h_tokens, 0)

\* CostTracker.record, lines 131-172: the token classes and the cost.
\* "if metadata" is false for None and for an empty dict.
Usage(costs, model, prompt_tokens, completion_tokens, metadata) ==
    LET md(key, default) == IF Truthy(metadata) THEN get_or(metadata, key, default)
                            ELSE default
        modality == md("modality", "text")
        pricing == resolve(costs, model, prompt_tokens, modality)
        cached_tokens == IF Truthy(metadata)
                         THEN Min(get_or(metadata, "cached_tokens", 0), prompt_tokens)
                         ELSE 0
        room == Max(prompt_tokens - cached_tokens, 0)
        cache_write_tokens ==
            IF Truthy(metadata) THEN Min(get_or(metadata, "cache_write_tokens", 0), room)
            ELSE 0
        cache_write_5m_tokens ==
            IF Truthy(metadata) THEN Min(get_or(metadata, "cache_write_5m_tokens", 0), room)
            ELSE 0
        cache_write_1h_tokens ==
            IF Truthy(metadata) THEN Min(get_or(metadata, "cache_write_1h_tokens", 0), room)
            ELSE 0
        billable_prompt ==
            billable_tokens(prompt_tokens, cached_tokens, cache_write_tokens,
                            cache_write_5m_tokens, cache_write_1h_tokens)
        write_rates == cache_write_rates(pricing)
        unit_count == md("unit_count", 0)
        unit_tier == IF Truthy(metadata) THEN get(metadata, "unit_tier") ELSE None
        unit_cost == resolved_unit_cost(pricing, unit_tier)
        unit_charge == IF unit_cost # None /\ unit_cost[1] # 0 /\ unit_count # 0
                       THEN unit_count * unit_cost[1] ELSE 0
    IN  [pricing |-> pricing,
         cached_tokens |-> cached_tokens,
         cache_write_tokens |-> cache_write_tokens,
         cache_write_5m_tokens |-> cache_write_5m_tokens,
         cache_write_1h_tokens |-> cache_write_1h_tokens,
         billable_prompt |-> billable_prompt,
         unit_charge |-> unit_charge,
         cost |-> billable_prompt * pricing.input_per_1k
                  + cached_tokens * cached_rate(pricing)
                  + cache_write_tokens * write_rates.generic
                  + cache_write_5m_tokens * write_rates.m5
                  + cache_write_1h_tokens * write_rates.h1
                  + completion_tokens * pricing.output_per_1k
                  + unit_charge]

\* The entry of lines 174-190, tagged with the context of the calling task.
CostEntryRequestAsWorkflow(c, u, model, prompt_tokens, completion_tokens, total_tokens, metadata, cost_usd) ==
    [workflow |-> get_context(c).workflow,
     agent |-> get_context(c).agent,
     request_id |-> get_context(c).workflow,
     model |-> model,
     prompt_tokens |-> prompt_tokens,
     cached_tokens |-> u.cached_tokens,
     cache_write_tokens |-> u.cache_write_tokens,
     cache_write_5m_tokens |-> u.cache_write_5m_tokens,
     cache_write_1h_tokens |-> u.cache_write_1h_tokens,
     completion_tokens |-> completion_tokens,
     total_tokens |-> total_tokens,
     cost_usd |-> cost_usd,
     metadata |-> metadata]
CostEntry(c, u, model, prompt_tokens, completion_tokens, total_tokens, metadata, cost_usd) ==
    [workflow |-> get_context(c).workflow,
     agent |-> get_context(c).agent,
     request_id |-> get_context(c).request_id,
     model |-> model,
     prompt_tokens |-> prompt_tokens,
     cached_tokens |-> u.cached_tokens,
     cache_write_tokens |-> u.cache_write_tokens,
     cache_write_5m_tokens |-> u.cache_write_5m_tokens,
     cache_write_1h_tokens |-> u.cache_write_1h_tokens,
     completion_tokens |-> completion_tokens,
     total_tokens |-> total_tokens,
     cost_usd |-> cost_usd,
     metadata |-> metadata]

\* deque(maxlen = max_entries).append: a full deque drops its oldest item.
deque_append_unbounded(d, maxlen, x) == Append(d, x)
deque_append(d, maxlen, x) ==
    LET a == Append(d, x)
    IN  IF Len(a) > maxlen THEN SubSeq(a, Len(a) - maxlen + 1, Len(a)) ELSE a

ReturnedNone == [none |-> TRUE]
NoRecord == [nothing |-> TRUE]

\* CostTracker.record, called in task t.  It has no await: it runs to its
\* end without another task running in between.  The export file and the
\* metrics sink are not configured.
record(t, model, prompt_tokens, completion_tokens, total_tokens, metadata) ==
    /\ record_calls < MaxRecords
    /\ record_calls' = record_calls + 1
    /\ IF ~costs_cfg.enabled
       THEN /\ last_record' = ReturnedNone
            /\ UNCHANGED <<entries, recorded>>
       ELSE LET u == Usage(costs_cfg, model, prompt_tokens, completion_tokens, metadata)
            IN  \E cost_usd \in round8(u.cost) :
                LET entry == CostEntry(ctx[t], u, model, prompt_tokens, completion_tokens,
                                       total_tokens, metadata, cost_usd)
                IN  /\ entries' = deque_append(entries, costs_cfg.max_entries, entry)
                    /\ recorded' = Append(recorded, entry)
                    /\ last_record' = entry
    /\ UNCHANGED <<costs_cfg, pipeline_vars, reader_vars, service_vars>>

\* round(x, 6) of an amount of 10^-8 dollar, in 10^-6 dollar.  An exact
\* half is not representable in binary floating point and goes either way.
round6(amount) ==
    LET q == amount \div 100
        r == amount % 100
    IN  IF r < 50 THEN {q} ELSE IF r > 50 THEN {q + 1} ELSE {q, q + 1}

RECURSIVE SumOver(_, _)
SumOver(s, field) ==
    IF s = <<>> THEN 0 ELSE s[1][field] + SumOver(Tail(s), field)

\* A breakdown map of summary, lines 226-231: for each entry in turn the
\* bucket of its tag is replaced by round(bucket + cost_usd, 6).  The map
\* is a function from tags to amounts of 10^-6 dollar; no tag of the
\* model is empty, so none is replaced by "unknown".
EmptyMap == [tag \in {} |-> 0]
RECURSIVE breakdown(_, _)
breakdown(s, key) ==
    IF s = <<>> THEN {EmptyMap}
    ELSE LET entry == s[Len(s)]
             tag == entry[key]
             bucket(b) == IF tag \in DOMAIN b THEN b[tag] ELSE 0
         IN  UNION {{[t \in DOMAIN b \cup {tag} |-> IF t = tag THEN v ELSE b[t]] :
                        v \in round6(100 * bucket(b) + entry.cost_usd)} :
                    b \in breakdown(SubSeq(s, 1, Len(s) - 1), key)}

NoSummary == [nothing |-> TRUE]
NoRecent == [nothing |-> TRUE]

\* CostTracker.summary() with since_minutes = None: every stored entry
\* counts.  It reads the ledger and changes nothing.
summary ==
    /\ \E cost_usd \in round6(SumOver(entries, "cost_usd")),
          workflow \in breakdown(entries, "workflow"),
          agent \in breakdown(entries, "agent"),
          model \in breakdown(entries, "model") :
           last_summary' =
               [totals |-> [cost_usd |-> cost_usd,
                            prompt_tokens |-> SumOver(entries, "prompt_tokens"),
                            completion_tokens |-> SumOver(entries, "completion_tokens"),
                            total_tokens |-> SumOver(entries, "total_tokens"),
                            count |-> Len(entries)],
                breakdown |-> [workflow |-> workflow, agent |-> agent, model |-> model]]
    /\ UNCHANGED <<ledger_vars, last_recent, pipeline_vars, service_vars>>

\* The Python slice s[start:].
slice_from(s, start) ==
    LET first == IF start < 0 THEN Max(Len(s) + start, 0) ELSE Min(start, Len(s))
    IN  SubSeq(s, first + 1, Len(s))

\* CostTracker.recent(limit): list(self.entries)[-limit:].
recent(limit) ==
    /\ last_recent' = [limit |-> limit, entries |-> slice_from(entries, 0 - limit)]
    /\ UNCHANGED <<ledger_vars, last_summary, pipeline_vars, service_vars>>

\* ------------------------------------------------------- security.py
\* The clocks and the calls of the services are bounded.
MaxTicks == 3
MaxAllows == 4

ClientKeys == {"c1", "c2"}
RequestsPerMinute == {0, 1, 2, 3}

\* Token counts are kept in sixtieths of a token: refill_rate is
\* capacity / 60 tokens per second, capacity sixtieths per second.
limiter_capacity(requests_per_minute) == Max(1, requests_per_minute)
fresh_bucket_full(at) == [tokens |-> 60 * capacity, last_refill |-> at]
fresh_bucket(at) == [tokens |-> 60 * (capacity - 1), last_refill |-> at]

\* RateLimiter.allow(key).  The lock is never held across an await, so a
\* call takes it at once and runs to its end.  elapsed * refill_rate is a
\* float product: when it brings the bucket to exactly one token the
\* comparison with 1 can go either way.
allow(key) ==
    /\ Len(allow_log) < MaxAllows
    /\ LET at == monotonic
       IN  IF key \notin DOMAIN buckets
           THEN /\ buckets' = [k \in DOMAIN buckets \cup {key} |->
                                 IF k = key THEN fresh_bucket(at) ELSE buckets[k]]
                /\ allow_log' = Append(allow_log,
                                       [key |-> key, at |-> at, allowed |-> TRUE])
           ELSE LET bucket == buckets[key]
                    elapsed == 30 * (at - bucket.last_refill)
                    new_tokens == Min(60 * capacity, bucket.tokens + elapsed * capacity)
                    refused == IF new_tokens < 60 THEN {TRUE}
                               ELSE IF new_tokens = 60 /\ elapsed > 0 /\ capacity > 1
                                    THEN {TRUE, FALSE}
                               ELSE {FALSE}
                IN  \E no \in refused :
                        /\ buckets' = [buckets EXCEPT ![key] =
                               [tokens |-> IF no THEN new_tokens ELSE new_tokens - 60,
                                last_refill |-> at]]
                        /\ allow_log' = Append(allow_log,
                               [key |-> key, at |-> at, allowed |-> ~no])
    /\ UNCHANGED <<capacity, monotonic, cache_vars, engine_vars, ledger_vars, reader_vars,
                   pipeline_vars>>

\* Thirty seconds pass on the monotonic clock.
monotonic_tick ==
    /\ monotonic < MaxTicks
    /\ monotonic' = monotonic + 1
    /\ UNCHANGED <<capacity, buckets, allow_log, cache_vars, engine_vars, ledger_vars,
                   reader_vars, pipeline_vars>>

\* RateLimiter.__init__, for the default of 120 requests a minute.
IdleLimiter ==
    /\ capacity = limiter_capacity(120)
    /\ buckets = <<>>
    /\ monotonic = 0
    /\ allow_log = <<>>

\* ------------------------------------------------------- cache.py
CacheKeys == {"k1", "k2"}
CacheValues == {"v", "w"}
Ttls == {None, <<0>>, <<1>>, <<2>>, <<-1>>}
CacheConfigs == [enabled : BOOLEAN, backend : {"memory"}, ttl : {0, 2}]

NoGet == [nothing |-> TRUE]

\* expires_at = time.time() + ttl if ttl else None
expires_at_zero_expires(at, ttl) == <<at + ttl>>
expires_at(at, ttl) == IF ttl # 0 THEN <<at + ttl>> ELSE None

\* CacheClient.set_json(key, value, ttl) on the memory backend.
set_json(key, value, ttl) ==
    /\ IF ~cache_cfg.enabled
       THEN UNCHANGED <<memory, last_set>>
       ELSE LET effective == IF ttl # None THEN ttl[1] ELSE cache_cfg.ttl
                stored == [value |-> value, expires_at |-> expires_at(wall, effective)]
            IN  /\ memory' = [k \in DOMAIN memory \cup {key} |->
                                IF k = key THEN stored ELSE memory[k]]
                /\ last_set' = [k \in DOMAIN last_set \cup {key} |->
                                IF k = key
                                THEN [value |-> value, ttl |-> effective, at |-> wall]
                                ELSE last_set[k]]
    /\ UNCHANGED <<cache_cfg, wall, last_get, limiter_vars, engine_vars, ledger_vars,
                   reader_vars, pipeline_vars>>

\* CacheClient.get_json(key) on the memory backend: None is <<>>.
get_json(key) ==
    /\ IF ~cache_cfg.enabled \/ key \notin DOMAIN memory
       THEN /\ last_get' = [key |-> key, value |-> None, at |-> wall]
            /\ UNCHANGED memory
       ELSE LET entry == memory[key]
            IN  IF entry.expires_at # None /\ entry.expires_at[1] # 0
                       /\ wall > entry.expires_at[1]
                THEN /\ memory' = [k \in DOMAIN memory \ {key} |-> memory[k]]
                     /\ last_get' = [key |-> key, value |-> None, at |-> wall]
                ELSE /\ last_get' = [key |-> key, value |-> <<entry.value>>, at |-> wall]
                     /\ UNCHANGED memory
    /\ UNCHANGED <<cache_cfg, wall, last_set, limiter_vars, engine_vars, ledger_vars,
                   reader_vars, pipeline_vars>>

\* One second passes on the wall clock, which starts at second 10 of the
\* epoch.
wall_tick ==
    /\ wall < 10 + MaxTicks
    /\ wall' = wall + 1
    /\ UNCHANGED <<cache_cfg, memory, last_get, last_set, limiter_vars, engine_vars,
                   ledger_vars, reader_vars, pipeline_vars>>

\* CacheClient.__init__ with the config of a disabled cache.
IdleCache ==
    /\ cache_cfg = [enabled |-> FALSE, backend |-> "memory", ttl |-> 2]
    /\ memory = <<>>
    /\ wall = 10
    /\ last_get = NoGet
    /\ last_set = <<>>

\* ------------------------------------------------------- engine.py
MaxRequests == 3
Requests == 1..MaxRequests
Workflows == {"analysis", "missing"}
KnownWorkflows == {"analysis"}

\* Gauge.inc() and Gauge.dec() of metrics.py, lines 64-70.
increment_active_requests(gauge) == gauge + 1
decrement_active_requests(gauge) == gauge - 1

\* The finally block of _execute, lines 161-163.
finally_block_skipped_on_raise(outcome) ==
    IF metrics /\ outcome = "returned"
    THEN decrement_active_requests(active_requests)
    ELSE active_requests
finally_block(outcome) ==
    IF metrics THEN decrement_active_requests(active_requests) ELSE active_requests

\* _execute up to "await wf.execute(input_data)": an unknown workflow
\* raises KeyError before the gauge is touched.
engine_execute(i, workflow) ==
    /\ executions[i] = "idle"
    /\ IF workflow \notin KnownWorkflows
       THEN /\ executions' = [executions EXCEPT ![i] = "raised"]
            /\ UNCHANGED active_requests
       ELSE /\ executions' = [executions EXCEPT ![i] = "running"]
            /\ active_requests' = IF metrics
                                  THEN increment_active_requests(active_requests)
                                  ELSE active_requests
    /\ UNCHANGED <<metrics, limiter_vars, cache_vars, ledger_vars, reader_vars,
                   pipeline_vars>>

\* wf.execute returns or raises, and _execute runs its finally block; after
\* a return it goes on to record the request and returns the result.
engine_execute_done(i, outcome) ==
    /\ executions[i] = "running"
    /\ executions' = [executions EXCEPT ![i] = outcome]
    /\ active_requests' = finally_block(outcome)
    /\ UNCHANGED <<metrics, limiter_vars, cache_vars, ledger_vars, reader_vars,
                   pipeline_vars>>

\* AgenticEngine.__init__ with monitoring disabled.
IdleEngine ==
    /\ metrics = FALSE
    /\ active_requests = 0
    /\ executions = [i \in Requests |-> "idle"]

\* The services of a process that uses none of them.
IdleServices == IdleLimiter /\ IdleCache /\ IdleEngine

\* The tracker of a process that has not recorded anything yet.
FlatModels == [m |-> [input_per_1k |-> 107, output_per_1k |-> 303]]
PlainCosts == [enabled |-> TRUE, max_entries |-> 2, models |-> FlatModels,
               default_model |-> None]
NoLedger ==
    /\ entries = <<>>
    /\ costs_cfg = PlainCosts
    /\ record_calls = 0
    /\ recorded = <<>>
    /\ last_record = NoRecord
    /\ last_summary = NoSummary
    /\ last_recent = NoRecent

\* No add_agent or build call has been made yet.
NoSetup == [op |-> "none", raised |-> FALSE]

\* ------------------------------------------------------- the pipeline
NoDuplicates(s) == \A i, j \in 1..Len(s) : i # j => s[i] # s[j]

NotCompiled == [set |-> FALSE, nodes |-> <<>>]

IdleRun == [pc |-> "idle", task |-> CallerTask, input |-> "", data |-> {}, metadata |-> {},
            errors |-> <<>>, agent_results |-> <<>>, pipeline_id |-> <<>>, idx |-> 0,
            order |-> <<>>, workflow_token |-> Unknown, request_token |-> Unknown,
            agent_token |-> Unknown, timeout |-> <<>>, path |-> "none",
            pre_ctx |-> DefaultContext, result |-> [none |-> TRUE]]

Init ==
    /\ agents = {}
    /\ agent_order = <<>>
    /\ compiled_graph = NotCompiled
    /\ execution_history = <<>>
    /\ config \in TimeoutConfigs
    /\ ctx = [t \in Tasks |-> CallerContext]
    /\ runs = [r \in Runs |-> IdleRun]
    /\ now = 0
    /\ caller = [pc |-> "idle", batch |-> <<>>, batch_input |-> <<>>, last |-> "none",
                 results |-> <<>>]
    /\ calls = 0
    /\ completion_order = <<>>
    /\ setup = NoSetup
    /\ NoLedger
    /\ IdleServices

\* Agent names are interchangeable: a new agent either repeats a registered
\* name or takes the first name not yet used.
Fresh(name) == name \notin agents /\ \A i \in 1..Len(NameOrder) :
                    NameOrder[i] = name => \A j \in 1..(i - 1) : NameOrder[j] \in agents

\* add_agent: registers the agent and appends its name.  The method checks
\* nothing, not even whether the graph is already built; it is called by the
\* code that owns the pipeline, which is not suspended in a call of execute.
add_agent(name) ==
    /\ caller.pc = "idle"
    /\ Len(agent_order) < MaxStages
    /\ name \in agents \/ Fresh(name)
    /\ agents' = agents \cup {name}
    /\ agent_order' = Append(agent_order, name)
    /\ setup' = [op |-> "add_agent", raised |-> FALSE]
    /\ UNCHANGED not_pipeline_vars
    /\ UNCHANGED <<compiled_graph, execution_history, config, ctx, runs, now, caller,
                   calls, completion_order>>

\* build: one node per name of agent_order, chained in that order, compiled;
\* called, like add_agent, by the code that owns the pipeline.
\* StateGraph.add_node refuses a name it already holds and compile refuses a
\* graph without an entry point: build then raises before compiled_graph is
\* assigned.
build_unchecked ==
    /\ caller.pc = "idle"
    /\ compiled_graph' = [set |-> TRUE, nodes |-> agent_order]
    /\ setup' = [op |-> "build", raised |-> FALSE]
    /\ UNCHANGED not_pipeline_vars
    /\ UNCHANGED <<agents, agent_order, execution_history, config, ctx, runs, now, caller,
                   calls, completion_order>>
build ==
    /\ caller.pc = "idle"
    /\ IF agent_order # <<>> /\ NoDuplicates(agent_order)
       THEN /\ compiled_graph' = [set |-> TRUE, nodes |-> agent_order]
            /\ setup' = [op |-> "build", raised |-> FALSE]
       ELSE /\ compiled_graph' = compiled_graph
            /\ setup' = [op |-> "build", raised |-> TRUE]
    /\ UNCHANGED not_pipeline_vars
    /\ UNCHANGED <<agents, agent_order, execution_history, config, ctx, runs, now, caller,
                   calls, completion_order>>

\* ------------------------------------------------------- node_function
\* The entry appended to state["agent_results"]; its "errors" is the list
\* object of the state itself, so it is read through the state (AgentResultsView).
AgentResultEntry(name, errors) == [agent |-> name, success |-> Len(errors) = 0]

TrackAgentExecutionReversed(agent_results, entry) == <<entry>> \o agent_results
TrackAgentExecution(agent_results, entry) == Append(agent_results, entry)

AgentResultsView(run) ==
    [i \in 1..Len(run.agent_results) |->
        [agent |-> run.agent_results[i].agent,
         success |-> run.agent_results[i].success,
         errors |-> run.errors]]

\* ------------------------------------------------------- execute
TimeoutMessage == ""
StageExceptionMessage == "boom"
NotBuiltMessage == "Pipeline not built. Call build() first."

\* _get_timeout: the timeout configured under the key derived from the
\* pipeline's name, None (<<>>) when there is none.
get_timeout(cfg) ==
    IF \E e \in cfg : e[1] = WorkflowKey
    THEN <<(CHOOSE e \in cfg : e[1] = WorkflowKey)[2]>>
    ELSE <<>>

\* "if timeout:" is false for None and for 0.
TimeoutSet(t) == t # <<>> /\ t[1] # 0

CompletedResultAlwaysOk(run) ==
    [success |-> TRUE, data |-> run.data, metadata |-> run.metadata,
     errors |-> run.errors, agent_results |-> AgentResultsView(run),
     pipeline_id |-> run.pipeline_id]
CompletedResult(run) ==
    [success |-> Len(run.errors) = 0, data |-> run.data, metadata |-> run.metadata,
     errors |-> run.errors, agent_results |-> AgentResultsView(run),
     pipeline_id |-> run.pipeline_id]

\* The except block returns input_data itself: the dict object the nodes
\* were handed as state["data"], with whatever they wrote into it.  The
\* callers of this repository pass no metadata, so "metadata or {}" is a
\* new empty dict.
FailureResultKeepsStages(run, message) ==
    [success |-> FALSE, data |-> run.data, metadata |-> {}, errors |-> <<message>>,
     agent_results |-> AgentResultsView(run), pipeline_id |-> run.pipeline_id]
FailureResult(run, message) ==
    [success |-> FALSE, data |-> run.data, metadata |-> {}, errors |-> <<message>>,
     agent_results |-> <<>>, pipeline_id |-> run.pipeline_id]

\* The coroutine ends: its locals are gone, its outcome is what is left.
Leave(run, pc, result) ==
    [IdleRun EXCEPT !.pc = pc, !.task = run.task, !.input = run.input,
                    !.order = run.order, !.pipeline_id = run.pipeline_id,
                    !.path = run.path, !.pre_ctx = run.pre_ctx, !.result = result]

\* "except Exception as e: return {...}"
ExceptBlockReraises(run, message) == Leave(run, "raised", [exception |-> message])
ExceptBlock(run, message) == Leave(run, "returned", FailureResult(run, message))

\* "finally: reset_workflow(workflow_token); reset_request_id(request_token)"
FinallyBlockSkipped(c, run) == c
FinallyBlock(c, run) ==
    reset_request_id(reset_workflow(c, run.workflow_token), run.request_token)

Finished(r) == runs[r].pc \in {"returned", "raised"}

\* The frame of a coroutine that has finished is gone once its caller goes on.
DoneRun == [IdleRun EXCEPT !.pc = "done"]
Retired == [r \in Runs |-> IF Finished(r) THEN DoneRun ELSE runs[r]]

\* A caller awaits execute(input_data): the coroutine runs in the caller's task.
call_execute(input) ==
    /\ caller.pc = "idle"
    /\ calls < MaxCalls
    /\ calls' = calls + 1
    /\ LET r == 1 IN
        /\ runs' = [Retired EXCEPT ![r] = [IdleRun EXCEPT !.pc = "scheduled",
                                           !.task = CallerTask, !.input = input]]
        /\ caller' = [caller EXCEPT !.pc = "await_execute", !.batch = <<r>>,
                                    !.batch_input = <<input>>, !.results = <<>>]
    /\ completion_order' = <<>>
    /\ UNCHANGED <<setup, not_pipeline_vars>>
    /\ UNCHANGED <<agents, agent_order, compiled_graph, execution_history, config, ctx,
                   now>>

\* execute, up to its first await: the built check, the initial state, the
\* two context variables, the timeout lookup.
execute_start(r) ==
    /\ runs[r].pc = "scheduled"
    /\ IF ~compiled_graph.set
       THEN /\ runs' = [runs EXCEPT ![r] =
                        Leave([@ EXCEPT !.path = "notbuilt"], "raised",
                              [exception |-> NotBuiltMessage])]
            /\ completion_order' = Append(completion_order, r)
            /\ UNCHANGED <<ctx, now>>
       ELSE \E dt \in {0, 1} :
            LET t == runs[r].task
                id == <<PipelineName, now + dt>>
                w == set_workflow(ctx[t], <<PipelineName>>)
                q == set_request_id(w.ctx, id)
            IN  /\ now' = now + dt
                /\ ctx' = [ctx EXCEPT ![t] = q.ctx]
                /\ runs' = [runs EXCEPT ![r] = [@ EXCEPT
                        !.pc = "between", !.data = {runs[r].input}, !.metadata = {},
                        !.errors = <<>>, !.agent_results = <<>>, !.pipeline_id = id,
                        !.idx = 1, !.order = compiled_graph.nodes,
                        !.workflow_token = w.token, !.request_token = q.token,
                        !.timeout = get_timeout(config), !.path = "running",
                        !.pre_ctx = ctx[t]]]
                /\ UNCHANGED completion_order
    /\ UNCHANGED <<setup, not_pipeline_vars>>
    /\ UNCHANGED <<agents, agent_order, compiled_graph, execution_history, config, caller,
                   calls>>

\* node_function up to "await agent.process(agent_state)".
node_enter(r) ==
    /\ runs[r].pc = "between"
    /\ runs[r].idx <= Len(runs[r].order)
    /\ LET t == runs[r].task
           a == set_agent(ctx[t], <<runs[r].order[runs[r].idx]>>)
       IN  /\ ctx' = [ctx EXCEPT ![t] = a.ctx]
           /\ runs' = [runs EXCEPT ![r] = [@ EXCEPT !.pc = "processing",
                                                     !.agent_token = a.token]]
    /\ UNCHANGED <<setup, not_pipeline_vars>>
    /\ UNCHANGED <<agents, agent_order, compiled_graph, execution_history, config, now,
                   caller, calls, completion_order>>

\* agent.process returns: the agents of this repository write their output
\* into the state they were given (update_data, update_metadata) or report
\* a failure with add_error, and return that same state.
node_return(r, outcome) ==
    /\ runs[r].pc = "processing"
    /\ outcome \in {"ok", "err"}
    /\ LET t == runs[r].task
           name == runs[r].order[runs[r].idx]
           data == IF outcome = "ok" THEN runs[r].data \cup {name} ELSE runs[r].data
           metadata == IF outcome = "ok" THEN runs[r].metadata \cup {name}
                       ELSE runs[r].metadata
           errors == IF outcome = "err" THEN Append(runs[r].errors, name)
                     ELSE runs[r].errors
       IN  /\ runs' = [runs EXCEPT ![r] = [@ EXCEPT
                   !.pc = "between", !.data = data, !.metadata = metadata,
                   !.errors = errors,
                   !.agent_results = TrackAgentExecution(runs[r].agent_results,
                                                         AgentResultEntry(name, errors)),
                   !.idx = runs[r].idx + 1]]
           /\ ctx' = [ctx EXCEPT ![t] = reset_agent(ctx[t], runs[r].agent_token)]
    /\ UNCHANGED <<setup, not_pipeline_vars>>
    /\ UNCHANGED <<agents, agent_order, compiled_graph, execution_history, config, now,
                   caller, calls, completion_order>>

\* agent.process raises: node_function has no except, its finally resets the
\* agent variable, the exception leaves ainvoke and reaches the except block
\* of execute.
node_raise(r) ==
    /\ runs[r].pc = "processing"
    /\ LET t == runs[r].task
           run == [runs[r] EXCEPT !.path = "exception"]
       IN  /\ runs' = [runs EXCEPT ![r] = ExceptBlock(run, StageExceptionMessage)]
           /\ ctx' = [ctx EXCEPT ![t] =
                        FinallyBlock(reset_agent(ctx[t], runs[r].agent_token), run)]
    /\ completion_order' = Append(completion_order, r)
    /\ UNCHANGED <<setup, not_pipeline_vars>>
    /\ UNCHANGED <<agents, agent_order, compiled_graph, execution_history, config, now,
                   caller, calls>>

\* ainvoke returns the final state: the result is assembled and stored.
execute_complete(r) ==
    /\ runs[r].pc = "between"
    /\ runs[r].idx > Len(runs[r].order)
    /\ LET t == runs[r].task
           run == [runs[r] EXCEPT !.path = "completed"]
           result == CompletedResult(run)
       IN  /\ runs' = [runs EXCEPT ![r] = Leave(run, "returned", result)]
           /\ execution_history' = Append(execution_history, result)
           /\ ctx' = [ctx EXCEPT ![t] = FinallyBlock(ctx[t], run)]
    /\ completion_order' = Append(completion_order, r)
    /\ UNCHANGED <<setup, not_pipeline_vars>>
    /\ UNCHANGED <<agents, agent_order, compiled_graph, config, now, caller, calls>>

\* asyncio.wait_for gives up: the graph is cancelled at the await it is
\* suspended in (a node in the middle of agent.process runs its finally) and
\* TimeoutError reaches the except block.
execute_timeout(r) ==
    /\ runs[r].pc \in {"between", "processing"}
    /\ TimeoutSet(runs[r].timeout)
    /\ LET t == runs[r].task
           run == [runs[r] EXCEPT !.path = "timeout"]
           c == IF runs[r].pc = "processing"
                THEN reset_agent(ctx[t], runs[r].agent_token) ELSE ctx[t]
       IN  /\ runs' = [runs EXCEPT ![r] = ExceptBlock(run, TimeoutMessage)]
           /\ ctx' = [ctx EXCEPT ![t] = FinallyBlock(c, run)]
    /\ completion_order' = Append(completion_order, r)
    /\ UNCHANGED <<setup, not_pipeline_vars>>
    /\ UNCHANGED <<agents, agent_order, compiled_graph, execution_history, config, now,
                   caller, calls>>

\* The awaited execute hands its result, or its exception, to the caller.
execute_return ==
    /\ caller.pc = "await_execute"
    /\ Finished(caller.batch[1])
    /\ caller' = [caller EXCEPT !.pc = "idle", !.last = "execute",
                                !.results = <<runs[caller.batch[1]].result>>]
    /\ UNCHANGED <<setup, not_pipeline_vars>>
    /\ UNCHANGED <<agents, agent_order, compiled_graph, execution_history, config, ctx,
                   runs, now, calls, completion_order>>

\* ------------------------------------------------------- execute_batch
SeqsOfLen(S, k) == [1..k -> S]

\* tasks = [self.execute(input_data) for ...]; gather starts one task each.
execute_batch(batch_input) ==
    /\ caller.pc = "idle"
    /\ Len(batch_input) <= MaxBatch
    /\ LET k == Len(batch_input)
           batch == [i \in 1..k |-> i]
           slot == [i \in 1..k |-> NewTaskContext(batch[i])]
       IN  /\ runs' = [r \in Runs |->
                        IF r <= k
                        THEN [IdleRun EXCEPT !.pc = "scheduled",
                                             !.task = NewTaskContext(r),
                                             !.input = batch_input[r]]
                        ELSE Retired[r]]
           /\ ctx' = [t \in Tasks |->
                        IF \E i \in 1..k : slot[i] = t THEN ctx[CallerTask] ELSE ctx[t]]
           /\ caller' = [caller EXCEPT !.pc = "await_batch", !.batch = batch,
                                       !.batch_input = batch_input, !.results = <<>>]
    /\ calls' = calls + Len(batch_input)
    /\ completion_order' = <<>>
    /\ UNCHANGED <<setup, not_pipeline_vars>>
    /\ UNCHANGED <<agents, agent_order, compiled_graph, execution_history, config, now>>

\* gather(..., return_exceptions=True) lists the outcomes in the order of
\* the tasks; an exception becomes {"success": False, "error": str(r)}.
BatchItem(r) ==
    IF runs[r].pc = "raised"
    THEN [success |-> FALSE, error |-> runs[r].result.exception]
    ELSE runs[r].result

GatherInCompletionOrder(batch) ==
    LET mine == SelectSeq(completion_order, LAMBDA r : \E i \in 1..Len(batch) : batch[i] = r)
    IN  [i \in 1..Len(mine) |-> BatchItem(mine[i])]
Gather(batch) == [i \in 1..Len(batch) |-> BatchItem(batch[i])]

execute_batch_return ==
    /\ caller.pc = "await_batch"
    /\ \A i \in 1..Len(caller.batch) : Finished(caller.batch[i])
    /\ caller' = [caller EXCEPT !.pc = "idle", !.last = "batch",
                                !.results = Gather(caller.batch)]
    /\ UNCHANGED <<setup, not_pipeline_vars>>
    /\ UNCHANGED <<agents, agent_order, compiled_graph, execution_history, config, ctx,
                   runs, now, calls, completion_order>>

RunStep ==
    \/ \E r \in Runs : execute_start(r)
    \/ \E r \in Runs : node_enter(r)
    \/ \E r \in Runs, outcome \in {"ok", "err"} : node_return(r, outcome)
    \/ \E r \in Runs : node_raise(r)
    \/ \E r \in Runs : execute_complete(r)
    \/ \E r \in Runs : execute_timeout(r)

\* The life of one pipeline: agents are added, the graph is built, and the
\* caller awaits one execute call after the other.
Next ==
    \/ \E name \in Names : add_agent(name)
    \/ build
    \/ \E input \in Inputs : call_execute(input)
    \/ RunStep
    \/ execute_return

Spec == Init /\ [][Next]_vars

\* A pipeline of two agents, built or not, whose first use is one
\* execute_batch.  The inputs are interchangeable, so the first one is fixed.
BatchChain == <<NameOrder[1], NameOrder[2]>>
BatchTimeoutConfigs == {{}, {<<WorkflowKey, 1>>}}

InitBatch ==
    /\ agents = {BatchChain[i] : i \in 1..Len(BatchChain)}
    /\ agent_order = BatchChain
    /\ compiled_graph \in {NotCompiled, [set |-> TRUE, nodes |-> BatchChain]}
    /\ execution_history = <<>>
    /\ config \in BatchTimeoutConfigs
    /\ ctx = [t \in Tasks |-> CallerContext]
    /\ runs = [r \in Runs |-> IdleRun]
    /\ now = 0
    /\ caller = [pc |-> "idle", batch |-> <<>>, batch_input |-> <<>>, last |-> "none",
                 results |-> <<>>]
    /\ calls = 0
    /\ completion_order = <<>>
    /\ setup = NoSetup
    /\ NoLedger
    /\ IdleServices

NextBatch ==
    \/ \E k \in 0..MaxBatch : \E batch_input \in SeqsOfLen(Inputs, k) :
            /\ caller.last = "none"
            /\ k > 0 => batch_input[1] = "x"
            /\ execute_batch(batch_input)
    \/ RunStep
    \/ execute_batch_return

SpecBatch == InitBatch /\ [][NextBatch]_vars

\* ------------------------------------------------------- metered runs
\* An agent's process makes a metered model call: the callback handler of
\* its LLM calls record in the task that runs the stage.
MeteredModel == "m"
record_in_stage(r) ==
    /\ runs[r].pc = "processing"
    /\ record(runs[r].task, MeteredModel, 1, 0, 1, [provider |-> "openai", cached_tokens |-> 0])

InitMetered ==
    /\ agents = {BatchChain[i] : i \in 1..Len(BatchChain)}
    /\ agent_order = BatchChain
    /\ compiled_graph = [set |-> TRUE, nodes |-> BatchChain]
    /\ execution_history = <<>>
    /\ config \in BatchTimeoutConfigs
    /\ ctx = [t \in Tasks |-> CallerContext]
    /\ runs = [r \in Runs |-> IdleRun]
    /\ now = 0
    /\ caller = [pc |-> "idle", batch |-> <<>>, batch_input |-> <<>>, last |-> "none",
                 results |-> <<>>]
    /\ calls = 0
    /\ completion_order = <<>>
    /\ setup = [op |-> "build", raised |-> FALSE]
    /\ NoLedger
    /\ IdleServices

NextMetered ==
    \/ call_execute("x")
    \/ RunStep
    \/ execute_return
    \/ \E r \in Runs : record_in_stage(r)

SpecMetered == InitMetered /\ [][NextMetered]_vars

\* ------------------------------------------------------- the ledger
\* A CostTracker on its own: record is called directly, as the tests do,
\* outside any pipeline run, with entries told apart by their token count.
LedgerCapacities == {0, 1, 2, 4}
LedgerPrompts == {1, 4}
RecentLimits == {0, 1, 2, 5}
LedgerConfigs ==
    {[PlainCosts EXCEPT !.enabled = e, !.max_entries = n] :
        e \in BOOLEAN, n \in LedgerCapacities}

\* No pipeline is in use.
IdlePipeline ==
    /\ agents = {}
    /\ agent_order = <<>>
    /\ compiled_graph = NotCompiled
    /\ execution_history = <<>>
    /\ config = {}
    /\ ctx = [t \in Tasks |-> DefaultContext]
    /\ runs = [r \in Runs |-> IdleRun]
    /\ now = 0
    /\ caller = [pc |-> "idle", batch |-> <<>>, batch_input |-> <<>>, last |-> "none",
                 results |-> <<>>]
    /\ calls = 0
    /\ completion_order = <<>>
    /\ setup = NoSetup

InitLedger ==
    /\ IdlePipeline
    /\ entries = <<>>
    /\ costs_cfg \in LedgerConfigs
    /\ record_calls = 0
    /\ recorded = <<>>
    /\ last_record = NoRecord
    /\ last_summary = NoSummary
    /\ last_recent = NoRecent
    /\ IdleServices

NextLedger ==
    \/ \E prompt_tokens \in LedgerPrompts :
           record(CallerTask, MeteredModel, prompt_tokens, 0, prompt_tokens, <<>>)
    \/ summary
    \/ \E limit \in RecentLimits : recent(limit)

SpecLedger == InitLedger /\ [][NextLedger]_vars

\* ------------------------------------------------------- parallel runs
\* One tracker shared by parallel runs of one pipeline: each task of Runs
\* is inside the first stage of its own run and calls record from there,
\* in any order; summary is read in between.  record has no await, so the
\* calls of different tasks follow one another and never overlap.
StageContext(t) ==
    [workflow |-> <<PipelineName>>, agent |-> <<BatchChain[1]>>,
     request_id |-> <<PipelineName, t>>]
ParallelCapacities == {2, 4}

InitParallel ==
    /\ agents = {BatchChain[i] : i \in 1..Len(BatchChain)}
    /\ agent_order = BatchChain
    /\ compiled_graph = [set |-> TRUE, nodes |-> BatchChain]
    /\ execution_history = <<>>
    /\ config = {}
    /\ ctx = [t \in Tasks |-> IF t \in Runs THEN StageContext(t) ELSE DefaultContext]
    /\ runs = [r \in Runs |-> IdleRun]
    /\ now = 0
    /\ caller = [pc |-> "idle", batch |-> <<>>, batch_input |-> <<>>, last |-> "none",
                 results |-> <<>>]
    /\ calls = 0
    /\ completion_order = <<>>
    /\ setup = [op |-> "build", raised |-> FALSE]
    /\ entries = <<>>
    /\ costs_cfg \in {[PlainCosts EXCEPT !.max_entries = n] : n \in ParallelCapacities}
    /\ record_calls = 0
    /\ recorded = <<>>
    /\ last_record = NoRecord
    /\ last_summary = NoSummary
    /\ last_recent = NoRecent
    /\ IdleServices

NextParallel ==
    \/ \E t \in Runs, prompt_tokens \in LedgerPrompts :
           record(t, MeteredModel, prompt_tokens, 0, prompt_tokens, <<>>)
    \/ summary

SpecParallel == InitParallel /\ [][NextParallel]_vars

\* ------------------------------------------------------- the services
\* A rate limiter on its own, as the API creates one for its clients.
InitLimiter ==
    /\ IdlePipeline
    /\ NoLedger
    /\ IdleCache
    /\ IdleEngine
    /\ capacity \in {limiter_capacity(n) : n \in RequestsPerMinute}
    /\ buckets = <<>>
    /\ monotonic = 0
    /\ allow_log = <<>>

NextLimiter ==
    \/ \E key \in ClientKeys : allow(key)
    \/ monotonic_tick

SpecLimiter == InitLimiter /\ [][NextLimiter]_vars

\* A cache client on its own, on the memory backend.
InitCache ==
    /\ IdlePipeline
    /\ NoLedger
    /\ IdleLimiter
    /\ IdleEngine
    /\ cache_cfg \in CacheConfigs
    /\ memory = <<>>
    /\ wall = 10
    /\ last_get = NoGet
    /\ last_set = <<>>

NextCache ==
    \/ \E key \in CacheKeys, value \in CacheValues, ttl \in Ttls : set_json(key, value, ttl)
    \/ \E key \in CacheKeys : get_json(key)
    \/ wall_tick

SpecCache == InitCache /\ [][NextCache]_vars

\* An engine whose requests call _execute, with or without a collector.
InitEngine ==
    /\ IdlePipeline
    /\ NoLedger
    /\ IdleLimiter
    /\ IdleCache
    /\ metrics \in BOOLEAN
    /\ active_requests = 0
    /\ executions = [i \in Requests |-> "idle"]

NextEngine ==
    \/ \E i \in Requests, workflow \in Workflows : engine_execute(i, workflow)
    \/ \E i \in Requests, outcome \in {"returned", "raised"} : engine_execute_done(i, outcome)

SpecEngine == InitEngine /\ [][NextEngine]_vars

\* ------------------------------------------------------- pricing
\* record as a function of the pricing configuration and of its arguments:
\* a tracker with one configuration records one call.
BaseRates == [input_per_1k |-> 107, output_per_1k |-> 303]
OptionalRateKeys == {"cached_input_per_1k", "cache_write_per_1k",
                     "cache_write_5m_per_1k", "cache_write_1h_per_1k"}
ConfiguredRate == [cached_input_per_1k |-> 55, cache_write_per_1k |-> 211,
                   cache_write_5m_per_1k |-> 313, cache_write_1h_per_1k |-> 417]

\* Flat configs: each optional rate is absent, zero or its own value.
FlatConfigs ==
    UNION {{BaseRates @@ [k \in S |-> IF k \in Z THEN 0 ELSE ConfiguredRate[k]] :
                Z \in SUBSET S} : S \in SUBSET OptionalRateKeys}

\* Tiered configs: two adjacent tiers as in test_cost_tracker_tier_selection,
\* tiers with a gap between and around them, overlapping tiers, a first tier
\* without bounds, and a tier that carries a cached rate; the rates at the
\* top level of a tiered config are not the ones of any tier.
TierLists ==
    {<<[max_prompt_tokens |-> 4, input_per_1k |-> 101, output_per_1k |-> 202],
       [min_prompt_tokens |-> 5, input_per_1k |-> 304, output_per_1k |-> 404]>>,
     <<[min_prompt_tokens |-> 3, max_prompt_tokens |-> 4, input_per_1k |-> 101,
        output_per_1k |-> 202],
       [min_prompt_tokens |-> 9, max_prompt_tokens |-> 9, input_per_1k |-> 304,
        output_per_1k |-> 404]>>,
     <<[max_prompt_tokens |-> 9, input_per_1k |-> 101, output_per_1k |-> 202],
       [min_prompt_tokens |-> 4, input_per_1k |-> 304, output_per_1k |-> 404],
       [min_prompt_tokens |-> 5, max_prompt_tokens |-> 12, input_per_1k |-> 606,
        output_per_1k |-> 808]>>,
     <<[input_per_1k |-> 101, output_per_1k |-> 202],
       [min_prompt_tokens |-> 5, input_per_1k |-> 304, output_per_1k |-> 404]>>,
     <<[max_prompt_tokens |-> 4, input_per_1k |-> 101, output_per_1k |-> 202,
        cached_input_per_1k |-> 55],
       [min_prompt_tokens |-> 5, input_per_1k |-> 304, output_per_1k |-> 404]>>}
TieredConfigs == {[input_per_1k |-> 9090, output_per_1k |-> 9090, tiers |-> t] : t \in TierLists}

\* Unit-billed configs: the flat unit cost of test_cost_tracker_unit_cost
\* (0.1 dollar), named unit costs with and without a flat one, a flat cost
\* of zero, and unit costs next to token rates.
UnitConfigs ==
    {[unit_label |-> "second", unit_cost |-> 100000000],
     [unit_label |-> "second", unit_cost |-> 25, unit_costs |-> [hd |-> 40, sd |-> 15]],
     [unit_label |-> "second", unit_costs |-> [hd |-> 40, sd |-> 15]],
     [unit_label |-> "second", unit_cost |-> 0],
     BaseRates @@ [unit_label |-> "image", unit_cost |-> 25]}

\* Configs with modalities, with and without a "text" entry.
ModalityConfigs ==
    {[input_per_1k |-> 9090, output_per_1k |-> 9090, modalities |->
        <<[name |-> "image", config |-> [input_per_1k |-> 222, output_per_1k |-> 111]],
          [name |-> "text", config |->
              [tiers |-> <<[max_prompt_tokens |-> 4, input_per_1k |-> 101,
                            output_per_1k |-> 202],
                           [min_prompt_tokens |-> 5, input_per_1k |-> 304,
                            output_per_1k |-> 404]>>]]>>],
     [input_per_1k |-> 9090, output_per_1k |-> 9090, modalities |->
        <<[name |-> "image", config |-> [input_per_1k |-> 222, output_per_1k |-> 111]],
          [name |-> "video", config |-> [unit_label |-> "second", unit_cost |-> 25]]>>]}

ModelConfigs == FlatConfigs \cup TieredConfigs \cup UnitConfigs \cup ModalityConfigs

\* config["costs"]: the model priced under its own name, or only a default
\* model priced, or no model priced at all.
DefaultModel == "d"
PricingConfigs ==
    {[PlainCosts EXCEPT !.models = [m |-> c]] : c \in ModelConfigs}
    \cup {[PlainCosts EXCEPT !.models = [d |-> c], !.default_model = <<DefaultModel>>] :
            c \in TieredConfigs}
    \cup {[PlainCosts EXCEPT !.models = <<>>],
          [PlainCosts EXCEPT !.models = <<>>, !.default_model = <<DefaultModel>>]}

PricingModels == {MeteredModel, "unpriced"}
PricingPrompts == {0, 3, 4, 5, 9, 12}
PricingCompletions == {0, 2}

\* The metadata of a call: none, cached and cache-write token counts, a unit
\* count with or without a unit tier, or a modality.  record takes the unit
\* count as the caller gives it, a negative one included.
TokenMetadataKeys == {"cached_tokens", "cache_write_tokens", "cache_write_5m_tokens",
                      "cache_write_1h_tokens"}
TokenMetadataValues == [cached_tokens |-> {3, 20}, cache_write_tokens |-> {2},
                        cache_write_5m_tokens |-> {4}, cache_write_1h_tokens |-> {1}]
TokenMetadata ==
    UNION {{f \in [S -> {1, 2, 3, 4, 20}] : \A k \in S : f[k] \in TokenMetadataValues[k]} :
            S \in SUBSET TokenMetadataKeys}
UnitMetadata ==
    {[unit_count |-> n] : n \in {0, 12, -12}}
    \cup {[unit_count |-> n, unit_tier |-> t] : n \in {0, 12, -12}, t \in {"hd", "4k"}}
    \cup {[unit_tier |-> "hd"]}
ModalityMetadata == {[modality |-> "image"], [modality |-> "audio"]}
PricingMetadata == TokenMetadata \cup UnitMetadata \cup ModalityMetadata

InitPricing ==
    /\ IdlePipeline
    /\ entries = <<>>
    /\ costs_cfg \in PricingConfigs
    /\ record_calls = 0
    /\ recorded = <<>>
    /\ last_record = NoRecord
    /\ last_summary = NoSummary
    /\ last_recent = NoRecent
    /\ IdleServices

NextPricing ==
    \E model \in PricingModels, prompt_tokens \in PricingPrompts,
       completion_tokens \in PricingCompletions, metadata \in PricingMetadata :
        /\ record_calls = 0
        /\ record(CallerTask, model, prompt_tokens, completion_tokens,
                  prompt_tokens + completion_tokens, metadata)

SpecPricing == InitPricing /\ [][NextPricing]_vars

\* ------------------------------------------------------------------
\* Properties of execute and execute_batch
\* ------------------------------------------------------------------
Returned(r) == runs[r].pc = "returned"
Range(s) == {s[i] : i \in 1..Len(s)}
ResultKeys == {"success", "data", "metadata", "errors", "agent_results", "pipeline_id"}

\* C1: a run in which no stage raises, and which its timeout does not cut
\* short, returns exactly one stage result per stage of the built chain, in
\* build order, and every stage has run: each one has either written its
\* output or appended its error, also after an earlier stage appended an error.
C1_AllStagesInBuildOrder ==
    \A r \in Runs : Returned(r) /\ runs[r].path = "completed" =>
        LET res == runs[r].result
            order == runs[r].order
        IN  /\ Len(res.agent_results) = Len(order)
            /\ \A i \in 1..Len(order) :
                /\ res.agent_results[i].agent = order[i]
                /\ (order[i] \in res.data) # (order[i] \in Range(res.errors))

\* A chain of three stages whose second stage appended an error and whose
\* third stage still ran.
C1_Witness ==
    \E r \in Runs :
        /\ Returned(r) /\ runs[r].path = "completed"
        /\ Len(runs[r].order) = 3
        /\ runs[r].result.errors = <<runs[r].order[2]>>
        /\ runs[r].order[3] \in runs[r].result.data
        /\ Len(runs[r].result.agent_results) = 3

\* C2 (as claimed): a stage that raises does not halt the chain, so every
\* call that returns without a timeout carries one stage result per stage.
C2_RaisingStageDoesNotHalt ==
    \A r \in Runs : Returned(r) /\ runs[r].path \in {"completed", "exception"} =>
        Len(runs[r].result.agent_results) = Len(runs[r].order)

\* C3 (as claimed): every execute call that has returned a result has
\* appended that result to the run history.
C3_EveryCallAppendsToHistory ==
    \A r \in Runs : Returned(r) =>
        \E i \in 1..Len(execution_history) : execution_history[i] = runs[r].result

\* C4: every result returned by execute has success = TRUE exactly when its
\* error list is empty.
C4_SuccessIffNoErrors ==
    \A r \in Runs : Returned(r) =>
        (runs[r].result.success <=> runs[r].result.errors = <<>>)

\* One completed run that carries an error, and one timed-out run.
C4_Witness ==
    \E r, q \in Runs :
        /\ Returned(r) /\ runs[r].path = "completed"
        /\ runs[r].result.errors # <<>> /\ ~runs[r].result.success
        /\ Returned(q) /\ runs[q].path = "timeout" /\ ~runs[q].result.success

\* C5: a run cut short by its timeout returns success = FALSE, exactly one
\* error (the timeout's) and no stage result, whatever the stages had done
\* before; and a run times out only when a non-zero timeout is configured.
C5_TimeoutResult ==
    \A r \in Runs : Returned(r) /\ runs[r].path = "timeout" =>
        /\ ~runs[r].result.success
        /\ runs[r].result.errors = <<TimeoutMessage>>
        /\ runs[r].result.agent_results = <<>>
        /\ \E e \in config : e[1] = WorkflowKey /\ e[2] # 0

\* A timed-out run two of whose stages had completed and written their output.
C5_Witness ==
    \E r \in Runs :
        /\ Returned(r) /\ runs[r].path = "timeout"
        /\ Len(runs[r].order) >= 2
        /\ {runs[r].order[1], runs[r].order[2]} \subseteq runs[r].result.data
        /\ runs[r].result.agent_results = <<>>

\* C6 (as claimed): a run aborted by an exception returns success = FALSE,
\* exactly that one error, and data equal to the input of the call, unchanged
\* by the stages that ran before the exception.
C6_FailureReturnsOriginalInput ==
    \A r \in Runs : Returned(r) /\ runs[r].path \in {"exception", "timeout"} =>
        /\ ~runs[r].result.success
        /\ Len(runs[r].result.errors) = 1
        /\ runs[r].result.data = {runs[r].input}

\* C7 (as claimed): execute never raises to its caller.
C7_ExecuteNeverRaises == \A r \in Runs : runs[r].pc # "raised"

\* C7 (amended): the only exception execute raises is the RuntimeError of a
\* pipeline that was not built; on a built pipeline a stage exception and a
\* timeout are returned as a well-formed result with success = FALSE.
C7_RaisesOnlyWhenNotBuilt ==
    \A r \in Runs :
        /\ runs[r].pc = "raised" =>
              /\ runs[r].path = "notbuilt"
              /\ runs[r].result = [exception |-> NotBuiltMessage]
        /\ runs[r].path \in {"exception", "timeout"} /\ Finished(r) =>
              /\ Returned(r)
              /\ DOMAIN runs[r].result = ResultKeys
              /\ ~runs[r].result.success

\* A stage raised and execute returned the failure as a result.
C7_Witness ==
    \E r \in Runs :
        /\ Returned(r) /\ runs[r].path = "exception"
        /\ runs[r].result.errors = <<StageExceptionMessage>>
        /\ ~runs[r].result.success

\* C8: execute_batch returns one result per input, result i being the outcome
\* of the run started for input i whatever the order in which the runs
\* finished; a run that raised is a failed result at its own position.
C8_BatchPreservesInputOrder ==
    caller.pc = "idle" /\ caller.last = "batch" =>
        /\ Len(caller.results) = Len(caller.batch_input)
        /\ \A i \in 1..Len(caller.batch_input) :
            /\ runs[i].pc = "raised" =>
                  caller.results[i] = [success |-> FALSE, error |-> NotBuiltMessage]
            /\ Returned(i) =>
                  /\ caller.results[i] = runs[i].result
                  /\ caller.batch_input[i] \in caller.results[i].data
                  /\ caller.results[i].pipeline_id = runs[i].pipeline_id

\* Two runs with different inputs, the second finished first and failed, the
\* first succeeded.
C8_Witness ==
    /\ caller.pc = "idle" /\ caller.last = "batch"
    /\ Len(caller.results) = 2
    /\ caller.batch_input[1] # caller.batch_input[2]
    /\ completion_order = <<2, 1>>
    /\ caller.results[1].success /\ ~caller.results[2].success
    /\ caller.results[2].errors = <<StageExceptionMessage>>

\* C9: get_context inside a running stage returns the workflow, the stage
\* and the request id set by that stage's own run, under every interleaving
\* with the other runs.
C9_ContextIsolation ==
    \A r \in Runs : runs[r].pc = "processing" =>
        get_context(ctx[runs[r].task]) =
            [workflow |-> <<PipelineName>>,
             agent |-> <<runs[r].order[runs[r].idx]>>,
             request_id |-> runs[r].pipeline_id]

\* Two runs inside different stages at the same time, with different request ids.
C9_Witness ==
    \E r, q \in Runs :
        /\ runs[r].pc = "processing" /\ runs[q].pc = "processing"
        /\ runs[r].idx # runs[q].idx
        /\ runs[r].pipeline_id # runs[q].pipeline_id

\* C10: when execute has returned, on any path, the three context variables
\* of its task hold the values they held before the call, which may be those
\* of an enclosing scope; between two stages the agent variable holds its
\* value from before the stage.
C10_ContextRestored ==
    \A r \in Runs :
        /\ Returned(r) => ctx[runs[r].task] = runs[r].pre_ctx
        /\ runs[r].pc = "between" => ctx[runs[r].task].agent = runs[r].pre_ctx.agent

\* A run that ended in a stage exception inside an enclosing scope.
C10_Witness ==
    \E r \in Runs :
        /\ Returned(r) /\ runs[r].path = "exception"
        /\ runs[r].pre_ctx.workflow = Outer
        /\ ctx[runs[r].task] = runs[r].pre_ctx

\* ------------------------------------------------------------------
\* Properties of the cost tracker
\* ------------------------------------------------------------------
\* The run whose stage is executing when record is called.
Executing(r) == runs[r].pc = "processing"
StageOf(r) == <<runs[r].order[runs[r].idx]>>

\* C11 (as stated): an entry recorded while a stage of a run is executing
\* carries the run's id as its workflow and as its request id, and the
\* executing stage's name as its stage.
C11_EntryTaggedWithRunId ==
    [][\A r \in Runs : Executing(r) /\ record_calls' # record_calls =>
            /\ last_record'.workflow = runs[r].pipeline_id
            /\ last_record'.request_id = runs[r].pipeline_id
            /\ last_record'.agent = StageOf(r)]_vars

\* C11 (amended): the entry carries the pipeline's name as its workflow, the
\* run's id as its request id and the executing stage's name as its stage.
C11_EntryTaggedWithPipelineAndRun ==
    [][\A r \in Runs : Executing(r) /\ record_calls' # record_calls =>
            /\ last_record'.workflow = <<PipelineName>>
            /\ last_record'.request_id = runs[r].pipeline_id
            /\ last_record'.agent = StageOf(r)]_vars

\* An entry was recorded during the second stage of a run.
C11_Witness ==
    \E i \in 1..Len(recorded) :
        /\ recorded[i].agent = <<BatchChain[2]>>
        /\ recorded[i].request_id \notin {Outer, Unknown}

\* ------------------------------------------------------------------
\* Properties of the stage results
\* ------------------------------------------------------------------
InChain(r) == runs[r].pc \in {"between", "processing"}

\* C12: the success flag of a stage result is true exactly when the stage
\* itself appended no error, whatever earlier stages appended.
C12_SuccessIffNoNewError ==
    \A r \in Runs : InChain(r) =>
        \A i \in 1..Len(runs[r].agent_results) :
            LET entry == AgentResultsView(runs[r])[i]
            IN  entry.success <=> entry.agent \notin Range(runs[r].errors)

\* C13: a stage result, once appended, stays as it is while the later
\* stages of the run execute: its error list is the one of its completion.
C13_StageResultNeverChanges ==
    [][\A r \in Runs : InChain(r) /\ InChain(r)' =>
            \A i \in 1..Len(runs[r].agent_results) :
                AgentResultsView(runs'[r])[i] = AgentResultsView(runs[r])[i]]_vars

\* ------------------------------------------------------------------
\* Properties of add_agent and build
\* ------------------------------------------------------------------
\* C14: once the pipeline is built, an add_agent call fails and the stage
\* list and its order stay as they are.
C14_AddAgentAfterBuildFails ==
    [][compiled_graph.set =>
            /\ agent_order' = agent_order
            /\ agents' = agents
            /\ (setup'.op = "add_agent" => setup'.raised)]_vars

LastN(s, n) == SubSeq(s, Len(s) - Min(Len(s), n) + 1, Len(s))

\* C16: the ledger never holds more than max_entries entries, and what it
\* holds is the most recent entries in recording order: once N + 1 entries
\* are recorded with maximum N, the first one recorded is gone.
C16_LedgerKeepsMostRecent ==
    /\ Len(entries) <= costs_cfg.max_entries
    /\ entries = LastN(recorded, costs_cfg.max_entries)

\* N + 1 entries were recorded with maximum N > 0 and the first is gone.
C16_Witness ==
    /\ costs_cfg.max_entries > 0
    /\ Len(recorded) = costs_cfg.max_entries + 1
    /\ Len(entries) = costs_cfg.max_entries
    /\ recorded[1] \notin Range(entries)
    /\ entries[1] = recorded[2]

\* ------------------------------------------------------------------
\* Properties of pricing and of the recorded cost
\* ------------------------------------------------------------------
IsEntry(x) == "cost_usd" \in DOMAIN x
NoMetadata(e) == DOMAIN e.metadata = {}
ModalityOf(e) == IF "modality" \in DOMAIN e.metadata THEN e.metadata.modality ELSE "text"

\* The pricing config selected for an entry's model and modality, None when
\* neither the model nor a default model is priced.
SelectedConfig(e) ==
    LET own == get(costs_cfg.models, e.model)
        found == IF own # None THEN own
                 ELSE IF costs_cfg.default_model # None
                      THEN get(costs_cfg.models, costs_cfg.default_model[1])
                      ELSE None
    IN  IF found = None THEN None ELSE <<select_modality(found[1], ModalityOf(e))>>

\* A tier's range: both bounds inclusive, a missing bound is open.
InTier(tier, p) ==
    /\ "min_prompt_tokens" \in DOMAIN tier => p >= tier.min_prompt_tokens
    /\ "max_prompt_tokens" \in DOMAIN tier => p <= tier.max_prompt_tokens

\* The tier the claim says is used for p prompt tokens.
IsClaimedTier(tiers, i, p) ==
    \/ InTier(tiers[i], p) /\ \A j \in 1..(i - 1) : ~InTier(tiers[j], p)
    \/ i = Len(tiers) /\ \A j \in 1..Len(tiers) : ~InTier(tiers[j], p)

\* C17: when the selected config declares tiers, the rates of the recorded
\* call are those of the first declared tier whose range contains the prompt
\* token count, and those of the last declared tier when none contains it;
\* a call without metadata costs prompt and completion tokens at those rates.
C17_FirstContainingTierElseLast ==
    IsEntry(last_record) /\ SelectedConfig(last_record) # None
        /\ "tiers" \in DOMAIN SelectedConfig(last_record)[1] =>
        LET e == last_record
            tiers == SelectedConfig(e)[1].tiers
            p == e.prompt_tokens
            used == resolve(costs_cfg, e.model, p, ModalityOf(e))
        IN  \E i \in 1..Len(tiers) :
                /\ IsClaimedTier(tiers, i, p)
                /\ used.input_per_1k = tiers[i].input_per_1k
                /\ used.output_per_1k = tiers[i].output_per_1k
                /\ used.cached_input_per_1k = get(tiers[i], "cached_input_per_1k")
                /\ NoMetadata(e) =>
                        e.cost_usd \in round8(p * tiers[i].input_per_1k
                                    + e.completion_tokens * tiers[i].output_per_1k)

\* A call whose prompt token count lies in the ranges of two tiers with
\* different rates was recorded at the rates of the first of them.
C17_Witness ==
    /\ IsEntry(last_record)
    /\ SelectedConfig(last_record) # None
    /\ "tiers" \in DOMAIN SelectedConfig(last_record)[1]
    /\ NoMetadata(last_record)
    /\ last_record.completion_tokens = 0
    /\ LET tiers == SelectedConfig(last_record)[1].tiers
           p == last_record.prompt_tokens
       IN  \E i, j \in 1..Len(tiers) :
            /\ i < j
            /\ InTier(tiers[i], p) /\ InTier(tiers[j], p)
            /\ \A k \in 1..(i - 1) : ~InTier(tiers[k], p)
            /\ p * tiers[i].input_per_1k # p * tiers[j].input_per_1k
            /\ last_record.cost_usd \in round8(p * tiers[i].input_per_1k)
            /\ last_record.cost_usd \notin round8(p * tiers[j].input_per_1k)

\* What the caller's metadata gives for a count, 0 when it gives nothing.
MetaCount(e, key) == IF key \in DOMAIN e.metadata THEN e.metadata[key] ELSE 0
NoCacheWrites(e) ==
    /\ MetaCount(e, "cache_write_tokens") = 0
    /\ MetaCount(e, "cache_write_5m_tokens") = 0
    /\ MetaCount(e, "cache_write_1h_tokens") = 0
NoUnits(e) == MetaCount(e, "unit_count") = 0

\* The rate table resolved for an entry's call.
RatesOf(e) == resolve(costs_cfg, e.model, e.prompt_tokens, ModalityOf(e))

\* C18: without cache-write tokens and without a unit count, the recorded
\* cost is (prompt - c) tokens at the base input rate, c tokens at the cached
\* rate (the base input rate when none is configured) and the completion
\* tokens at the output rate, c = min(metadata cached tokens, prompt tokens),
\* rounded to the eighth decimal.
C18_CachedTokenCost ==
    IsEntry(last_record) /\ NoCacheWrites(last_record) /\ NoUnits(last_record) =>
        LET e == last_record
            rates == RatesOf(e)
            c == Min(MetaCount(e, "cached_tokens"), e.prompt_tokens)
            rate_of_cached == IF rates.cached_input_per_1k = None THEN rates.input_per_1k
                              ELSE rates.cached_input_per_1k[1]
        IN  /\ e.cached_tokens = c
            /\ e.cost_usd \in round8((e.prompt_tokens - c) * rates.input_per_1k
                                     + c * rate_of_cached
                                     + e.completion_tokens * rates.output_per_1k)

\* A call with some, not all, of its prompt tokens cached was recorded under
\* a cached rate below the base input rate, with completion tokens as well.
C18_Witness ==
    /\ IsEntry(last_record) /\ NoCacheWrites(last_record) /\ NoUnits(last_record)
    /\ last_record.cached_tokens > 0
    /\ last_record.cached_tokens < last_record.prompt_tokens
    /\ last_record.completion_tokens > 0
    /\ RatesOf(last_record).cached_input_per_1k # None
    /\ RatesOf(last_record).cached_input_per_1k # <<0>>
    /\ RatesOf(last_record).cached_input_per_1k # <<RatesOf(last_record).input_per_1k>>
    /\ last_record.cost_usd > 0

\* The cost of an entry's token classes at given cache-write rates; the
\* entry holds the counts record billed, and took no units.
CostAtWriteRates(e, generic, m5, h1) ==
    LET rates == RatesOf(e)
        billable == Max(e.prompt_tokens - e.cached_tokens - e.cache_write_tokens
                        - e.cache_write_5m_tokens - e.cache_write_1h_tokens, 0)
        rate_of_cached == IF rates.cached_input_per_1k = None THEN rates.input_per_1k
                          ELSE rates.cached_input_per_1k[1]
    IN  billable * rates.input_per_1k
        + e.cached_tokens * rate_of_cached
        + e.cache_write_tokens * generic
        + e.cache_write_5m_tokens * m5
        + e.cache_write_1h_tokens * h1
        + e.completion_tokens * rates.output_per_1k

Configured(rate) == rate # None
ConfiguredNonZero(rate) == rate # None /\ rate # <<0>>

\* C19 (as stated): the tokens of each cache-write class are billed at the
\* class's own rate when one is configured, and at the base input rate when
\* none is.
C19_WriteClassOwnRateElseBase ==
    IsEntry(last_record) /\ NoUnits(last_record) =>
        LET e == last_record
            rates == RatesOf(e)
            own_or_base(rate) == IF Configured(rate) THEN rate[1] ELSE rates.input_per_1k
        IN  e.cost_usd \in round8(CostAtWriteRates(e,
                                        own_or_base(rates.cache_write_per_1k),
                                        own_or_base(rates.cache_write_5m_per_1k),
                                        own_or_base(rates.cache_write_1h_per_1k)))

\* C19 (amended): a class is billed at its own rate when that rate is
\* configured and not zero; otherwise the generic class is billed at the base
\* input rate, and the 5-minute and 1-hour classes at the generic class's rate.
C19_WriteClassFallbackChain ==
    IsEntry(last_record) /\ NoUnits(last_record) =>
        LET e == last_record
            rates == RatesOf(e)
            generic == IF ConfiguredNonZero(rates.cache_write_per_1k)
                       THEN rates.cache_write_per_1k[1] ELSE rates.input_per_1k
            own_or_generic(rate) == IF ConfiguredNonZero(rate) THEN rate[1] ELSE generic
        IN  e.cost_usd \in round8(CostAtWriteRates(e, generic,
                                        own_or_generic(rates.cache_write_5m_per_1k),
                                        own_or_generic(rates.cache_write_1h_per_1k)))

\* A call with 5-minute cache-write tokens was recorded under a pricing with
\* a generic cache-write rate and no 5-minute rate.
C19_Witness ==
    /\ IsEntry(last_record) /\ NoUnits(last_record)
    /\ last_record.cache_write_5m_tokens > 0
    /\ last_record.cache_write_tokens = 0
    /\ last_record.cache_write_1h_tokens = 0
    /\ ConfiguredNonZero(RatesOf(last_record).cache_write_per_1k)
    /\ ~Configured(RatesOf(last_record).cache_write_5m_per_1k)
    /\ last_record.cost_usd > 0

\* The unit cost the claim names for an entry: the named unit cost of the
\* call's unit tier when the pricing has one for it, else the flat unit cost
\* (nothing is charged when there is neither).
ClaimedUnitCost(e) ==
    LET rates == RatesOf(e)
    IN  IF "unit_tier" \in DOMAIN e.metadata
            /\ e.metadata.unit_tier \in DOMAIN rates.unit_costs
        THEN rates.unit_costs[e.metadata.unit_tier]
        ELSE IF rates.unit_cost # None THEN rates.unit_cost[1] ELSE 0

\* C20: the unit charge is the unit count times that unit cost; a call with
\* zero token counts costs exactly its unit charge (12 units at 0.1 dollar
\* cost 1.2 dollar), and a call with tokens and no cache writes costs its
\* tokens plus its unit charge.
C20_UnitCharge ==
    IsEntry(last_record) =>
        LET e == last_record
            charge == MetaCount(e, "unit_count") * ClaimedUnitCost(e)
        IN  /\ e.prompt_tokens = 0 /\ e.completion_tokens = 0 =>
                    e.cost_usd \in round8(charge)
            /\ e.prompt_tokens = 0 /\ e.completion_tokens = 0
                    /\ MetaCount(e, "unit_count") = 12
                    /\ ClaimedUnitCost(e) = 100000000 =>
                    e.cost_usd = 120000000
            /\ NoCacheWrites(e) =>
                    e.cost_usd \in round8(CostAtWriteRates(e, 0, 0, 0) + charge)

\* A call with zero token counts and 12 units of a named unit tier was
\* recorded under a pricing whose flat unit cost differs from the named one.
C20_Witness ==
    /\ IsEntry(last_record)
    /\ last_record.prompt_tokens = 0 /\ last_record.completion_tokens = 0
    /\ MetaCount(last_record, "unit_count") = 12
    /\ "unit_tier" \in DOMAIN last_record.metadata
    /\ last_record.metadata.unit_tier \in DOMAIN RatesOf(last_record).unit_costs
    /\ RatesOf(last_record).unit_cost # None
    /\ RatesOf(last_record).unit_cost # <<ClaimedUnitCost(last_record)>>
    /\ last_record.cost_usd = 48

\* ------------------------------------------------------------------
\* Properties of summary and recent
\* ------------------------------------------------------------------
\* The sum of the values of a breakdown map.
RECURSIVE MapSum(_)
MapSum(f) ==
    IF DOMAIN f = {} THEN 0
    ELSE LET tag == CHOOSE t \in DOMAIN f : TRUE
         IN  f[tag] + MapSum([t \in DOMAIN f \ {tag} |-> f[t]])

\* Two amounts of 10^-6 dollar that differ by at most one unit of the
\* sixth decimal place, the place summary rounds to.
WithinRounding(a, b) == a - b \in {-1, 0, 1}

\* C21: whenever summary returns, its total cost equals the sum of the
\* values of the workflow map, of the agent map and of the model map, and
\* the sum of the costs of the stored entries, each to within one unit of
\* the sixth decimal place.
C21_SummaryTotalsMatchBreakdown ==
    [][last_summary' # last_summary =>
         LET total == last_summary'.totals.cost_usd
             maps == last_summary'.breakdown
             raw == SumOver(entries, "cost_usd")
         IN  /\ WithinRounding(total, MapSum(maps.workflow))
             /\ WithinRounding(total, MapSum(maps.agent))
             /\ WithinRounding(total, MapSum(maps.model))
             /\ 100 * total - raw \in -100..100]_vars

\* C22: whenever recent(limit) returns for a limit >= 0, it returns the
\* min(limit, number of stored entries) most recently recorded entries,
\* oldest first; with limit 0 that is no entry.
C22_RecentReturnsLastLimit ==
    [][last_recent' # last_recent /\ last_recent'.limit >= 0 =>
         last_recent'.entries =
             LastN(recorded, Min(last_recent'.limit, Len(entries)))]_vars

\* ------------------------------------------------------------------
\* Properties of record for any model and any metadata
\* ------------------------------------------------------------------
\* Neither the model nor a configured default model has a pricing entry.
Unpriced(model) ==
    /\ model \notin DOMAIN costs_cfg.models
    /\ \/ costs_cfg.default_model = None
       \/ costs_cfg.default_model[1] \notin DOMAIN costs_cfg.models

\* C23: a record call for a model that has no pricing entry, with no
\* default model that has one, returns an entry whose cost is 0, and that
\* entry is the newest of the ledger.
C23_UnpricedModelCostsNothing ==
    record_calls > 0 /\ IsEntry(last_record) /\ Unpriced(last_record.model) =>
        /\ last_record.cost_usd = 0
        /\ entries # <<>>
        /\ entries[Len(entries)] = last_record

\* An unpriced model was charged for prompt, completion and units, with a
\* default model named that has no pricing entry either.
C23_Witness ==
    /\ record_calls > 0
    /\ IsEntry(last_record)
    /\ Unpriced(last_record.model)
    /\ costs_cfg.default_model # None
    /\ last_record.prompt_tokens = 12
    /\ last_record.completion_tokens = 2
    /\ get_or(last_record.metadata, "unit_count", 0) = 12

\* C24: every entry stored in the ledger has a cost of at least 0,
\* whatever the record call and the metadata the caller supplied.
C24_StoredCostNeverNegative ==
    \A i \in 1..Len(entries) : entries[i].cost_usd >= 0

\* The token counts the caller supplied: the prompt count and the cached
\* and cache-write counts of the metadata.
SuppliedCounts(e) ==
    {e.prompt_tokens, MetaCount(e, "cached_tokens"), MetaCount(e, "cache_write_tokens"),
     MetaCount(e, "cache_write_5m_tokens"), MetaCount(e, "cache_write_1h_tokens")}
SuppliedCacheTokens(e) ==
    MetaCount(e, "cached_tokens") + MetaCount(e, "cache_write_tokens")
        + MetaCount(e, "cache_write_5m_tokens") + MetaCount(e, "cache_write_1h_tokens")

\* C29: for token counts that are not negative the billable prompt count
\* of a record call is not negative, and when the supplied cached and
\* cache-write counts together do not exceed the prompt count, billable
\* prompt + cached tokens + the three cache-write counts is the prompt count.
C29_BillablePromptPartition ==
    IsEntry(last_record) /\ (\A n \in SuppliedCounts(last_record) : n >= 0) =>
        LET e == last_record
            u == Usage(costs_cfg, e.model, e.prompt_tokens, e.completion_tokens,
                       e.metadata)
        IN  /\ u.billable_prompt >= 0
            /\ SuppliedCacheTokens(e) <= e.prompt_tokens =>
                   u.billable_prompt + e.cached_tokens + e.cache_write_tokens
                       + e.cache_write_5m_tokens + e.cache_write_1h_tokens
                   = e.prompt_tokens

\* A call whose cached and cache-write counts of all four classes fit in
\* its prompt and leave two tokens billable at the base rate.
C29_Witness ==
    /\ IsEntry(last_record)
    /\ last_record.prompt_tokens = 12
    /\ last_record.cached_tokens = 3
    /\ last_record.cache_write_tokens = 2
    /\ last_record.cache_write_5m_tokens = 4
    /\ last_record.cache_write_1h_tokens = 1
    /\ SuppliedCacheTokens(last_record) = 10
    /\ Usage(costs_cfg, last_record.model, 12, last_record.completion_tokens,
             last_record.metadata).billable_prompt = 2

\* ------------------------------------------------------------------
\* Properties of the run id
\* ------------------------------------------------------------------
\* C28: the run ids of any two execute calls on the orchestrator differ,
\* sibling runs of one execute_batch call included.
C28_RunIdsDistinct ==
    \A r1, r2 \in Runs :
        r1 # r2 /\ runs[r1].pipeline_id # <<>> /\ runs[r2].pipeline_id # <<>> =>
            runs[r1].pipeline_id # runs[r2].pipeline_id

\* ------------------------------------------------------------------
\* Properties of the ledger under parallel runs
\* ------------------------------------------------------------------
\* The keys of a complete entry.
EntryKeys ==
    {"workflow", "agent", "request_id", "model", "prompt_tokens", "cached_tokens",
     "cache_write_tokens", "cache_write_5m_tokens", "cache_write_1h_tokens",
     "completion_tokens", "total_tokens", "cost_usd", "metadata"}

\* After n record calls the ledger holds the min(n, max_entries) entries
\* appended last, in order, each with every key.
LedgerIntact ==
    /\ entries = LastN(recorded, Min(record_calls, costs_cfg.max_entries))
    /\ \A i \in 1..Len(entries) : DOMAIN entries[i] = EntryKeys

\* C27: after any interleaving of the record calls of parallel runs the
\* ledger holds exactly the min(n, max_entries) entries appended last, each
\* complete, and a summary then counts exactly those entries: its token
\* totals are their sums, and its total cost and the sums of its three
\* breakdown maps are the sum of their costs, to within one unit of the
\* sixth decimal place.
C27_ParallelRecordsKeepLedgerAndSums ==
    [][/\ LedgerIntact'
       /\ last_summary' # last_summary =>
            LET totals == last_summary'.totals
                maps == last_summary'.breakdown
                raw == SumOver(entries, "cost_usd")
            IN  /\ totals.count = Len(entries)
                /\ totals.prompt_tokens = SumOver(entries, "prompt_tokens")
                /\ totals.total_tokens = SumOver(entries, "total_tokens")
                /\ 100 * totals.cost_usd - raw \in -100..100
                /\ \A key \in {"workflow", "agent", "model"} :
                       100 * MapSum(maps[key]) - raw \in -100..100]_vars

\* ------------------------------------------------------------------
\* Properties of the rate limiter
\* ------------------------------------------------------------------
\* The allow calls made for a key, in order.
CallsFor(key) == SelectSeq(allow_log, LAMBDA c : c.key = key)

\* The calls for a key made at the time of its first call: the burst of a
\* fresh key.
FirstBurst(key) ==
    LET mine == CallsFor(key)
    IN  SelectSeq(mine, LAMBDA c : c.at = mine[1].at)

\* C25: of the calls of a burst for a fresh key, during which no time
\* passes, the first capacity ones are admitted and every later one is
\* refused; no instant admits more than capacity calls of one key; and a
\* call leaves the bucket of every other key as it was.
C25_BurstAdmitsCapacity ==
    [][/\ \A key \in ClientKeys :
              LET burst == FirstBurst(key)'
              IN  \A i \in 1..Len(burst) : burst[i].allowed <=> i <= capacity
       /\ \A key \in ClientKeys, at \in 0..MaxTicks :
              Len(SelectSeq(allow_log', LAMBDA c : c.key = key /\ c.at = at /\ c.allowed))
                  <= capacity
       /\ \A key \in DOMAIN buckets :
              allow_log' # allow_log /\ allow_log'[Len(allow_log')].key # key =>
                  key \in DOMAIN buckets' /\ buckets'[key] = buckets[key]]_vars

\* A fresh key used up its burst of capacity > 1 calls and was refused,
\* with calls for another key in between, and the other key was admitted
\* afterwards.
C25_Witness ==
    /\ capacity = 2
    /\ Len(allow_log) = 4
    /\ allow_log[1] = [key |-> "c1", at |-> 0, allowed |-> TRUE]
    /\ allow_log[2] = [key |-> "c1", at |-> 0, allowed |-> TRUE]
    /\ allow_log[3] = [key |-> "c1", at |-> 0, allowed |-> FALSE]
    /\ allow_log[4] = [key |-> "c2", at |-> 0, allowed |-> TRUE]

\* ------------------------------------------------------------------
\* Properties of the cache
\* ------------------------------------------------------------------
\* The seconds passed since the last set_json for a key.
SinceSet(key) == wall - last_set[key].at

\* C26 as stated: with the cache enabled, a get_json for a key that was
\* set returns the value set while less than ttl seconds have passed and
\* None once more than ttl seconds have passed, and then the key is no
\* longer in the store.
C26_GetHonoursTtl ==
    [][last_get' # last_get /\ cache_cfg.enabled /\ last_get'.key \in DOMAIN last_set =>
         LET key == last_get'.key
             set == last_set[key]
         IN  /\ SinceSet(key) < set.ttl => last_get'.value = <<set.value>>
             /\ SinceSet(key) > set.ttl =>
                    last_get'.value = None /\ key \notin DOMAIN memory']_vars

\* C26 amended: for a ttl other than 0 the value is returned while no
\* more than ttl seconds have passed, and None once more have passed, the
\* key then being removed; with a ttl of 0 the entry does not expire and
\* the value is returned at any later time.
C26_GetHonoursNonZeroTtl ==
    [][last_get' # last_get /\ cache_cfg.enabled /\ last_get'.key \in DOMAIN last_set =>
         LET key == last_get'.key
             set == last_set[key]
         IN  /\ set.ttl # 0 /\ SinceSet(key) <= set.ttl =>
                    last_get'.value = <<set.value>> /\ key \in DOMAIN memory'
             /\ set.ttl # 0 /\ SinceSet(key) > set.ttl =>
                    last_get'.value = None /\ key \notin DOMAIN memory'
             /\ set.ttl = 0 =>
                    last_get'.value = <<set.value>> /\ key \in DOMAIN memory']_vars

\* A get found the entry of k1, set two seconds earlier with a ttl of one
\* second, expired: it returned None and the entry is gone, while the
\* entry of k2, set at the same time without expiry, is still there.
C26_Witness ==
    /\ cache_cfg.enabled
    /\ last_get = [key |-> "k1", value |-> None, at |-> 12]
    /\ "k1" \in DOMAIN last_set
    /\ last_set["k1"] = [value |-> "v", ttl |-> 1, at |-> 10]
    /\ "k1" \notin DOMAIN memory
    /\ "k2" \in DOMAIN memory
    /\ memory["k2"] = [value |-> "w", expires_at |-> None]

\* ------------------------------------------------------------------
\* Properties of the active-requests gauge
\* ------------------------------------------------------------------
\* The _execute calls that are waiting for their workflow.
InFlight == {i \in Requests : executions[i] = "running"}

\* C30: with a metrics collector, every step of _execute keeps the gauge
\* equal to the number of executions in flight: it goes up by one when a
\* workflow is started, down by one when the workflow returns or raises,
\* and it is zero when no execution is in flight.
C30_GaugeCountsExecutionsInFlight ==
    metrics => active_requests = Cardinality(InFlight)

\* One workflow returned, one raised and one is still running: the gauge
\* reads one.
C30_Witness ==
    /\ metrics
    /\ \E i, j, k \in Requests :
           /\ executions[i] = "returned"
           /\ executions[j] = "raised"
           /\ executions[k] = "running"
    /\ active_requests = 1

====
